---- MODULE Spec2Model ----
\* Model of verification/verify_chat.py: one headless-browser smoke run that
\* navigates to http://localhost:1420/, waits 5000 ms, writes a screenshot to
\* verification/verification.png and closes the browser, inside a
\* `with sync_playwright()` block.
EXTENDS Integers, Sequences, FiniteSets

VARIABLES
    pc,           \* the statement the script is about to execute
    raised,       \* an exception is propagating out of run()
    driver,       \* Playwright driver session: "none", "running", "stopped"
    browser,      \* browser handle: "none", "live", "closed"
    context,      \* browsing context handle
    page,         \* page handle
    pageContent,  \* what the page currently renders
    server,       \* what answers on localhost:1420 during this invocation
    target,       \* the content the application serves
    perms,        \* what the filesystem lets the process do
    fs,           \* the filesystem: directory verification/ and the files
    fsAtStart,    \* the filesystem when this invocation started
    clock,        \* milliseconds since the invocation started
    navAt,        \* clock when page.goto was issued, -1 before
    shotAt,       \* clock when page.screenshot was issued, -1 before
    exitCode,     \* process exit status, -1 while running
    run,          \* number of this invocation
    log,          \* the steps of run() issued in this invocation, in order
    withExits,    \* how many times the with block was exited
    prev          \* outcome of the previous invocation

vars == <<pc, raised, driver, browser, context, page, pageContent, server,
          target, perms, fs, fsAtStart, clock, navAt, shotAt, exitCode, run,
          log, withExits, prev>>

\* ---------------------------------------------------------------- bounds
MaxRuns == 2
MaxJitter == 1
MaxGotoTicks == 1

\* ------------------------------------------------------------- constants
WaitMs == 5000
Url == "http://localhost:1420/"
OutputPath == "verification/verification.png"
BackupPath == "verification/verification.png.bak"

Steps == <<"launch", "new_context", "new_page", "goto", "wait", "screenshot", "close">>
PageOps == {"goto", "wait", "screenshot"}

Servers == {"down", "hang", "http_error", "ok"}
Targets == {"A", "B"}
Perms == {"rw", "ro", "mkdir_only"}

NoDir == [dir |-> FALSE, files |-> {}]
EmptyDir == [dir |-> TRUE, files |-> {}]
OldFile == [dir |-> TRUE, files |-> {<<OutputPath, "old">>}]
NoPrev == [code |-> -1, fs |-> NoDir, server |-> "down", target |-> "A"]

\* ------------------------------------------------------ sequencing of run()
\* The statement that follows `step` when it returns normally.
NextPcSkipsWait(step) ==
    CASE step = "launch" -> "new_context"
      [] step = "new_context" -> "new_page"
      [] step = "new_page" -> "goto"
      [] step = "goto" -> "screenshot"
      [] step = "wait" -> "screenshot"
      [] step = "screenshot" -> "close"
      [] step = "close" -> "with_exit"

NextPcClosesEarly(step) ==
    CASE step = "launch" -> "new_context"
      [] step = "new_context" -> "new_page"
      [] step = "new_page" -> "goto"
      [] step = "goto" -> "wait"
      [] step = "wait" -> "close"
      [] step = "close" -> "screenshot"
      [] step = "screenshot" -> "with_exit"

NextPc(step) ==
    CASE step = "launch" -> "new_context"
      [] step = "new_context" -> "new_page"
      [] step = "new_page" -> "goto"
      [] step = "goto" -> "wait"
      [] step = "wait" -> "screenshot"
      [] step = "screenshot" -> "close"
      [] step = "close" -> "with_exit"

\* Where control goes when `step` raises: run() has no try/except, so the
\* exception leaves run() and reaches the with statement's exit.
OnFaultSwallowed(step) == NextPc(step)

OnFaultHardExit(step) == "exited"

OnFault(step) == "with_exit"

\* page.goto raises when nothing listens on the port or the load times out;
\* it returns the response, whatever its status, otherwise.
GotoRaisesNever(s) == FALSE

GotoRaisesOnHttpError(s) == s \in {"down", "hang", "http_error"}

GotoRaises(s) == s \in {"down", "hang"}

\* What the page shows once page.goto has returned.
Render(s, t) == IF s = "ok" THEN t ELSE "errpage"

\* page.wait_for_timeout(5000): returns once at least the timeout has elapsed.
WaitElapsedNoWait(j) == j

WaitElapsed(j) == WaitMs + j

\* page.screenshot(path=...): the parent directories of path are created,
\* then the image replaces whatever was at path.
WriteFile(files, path, img) ==
    {f \in files : f[1] # path} \cup {<<path, img>>}

ScreenshotWriteNoMkdir(f, path, img, p) ==
    IF p = "ro" THEN [fs |-> f, ok |-> FALSE]
    ELSE IF ~f.dir THEN [fs |-> f, ok |-> TRUE]
    ELSE IF p = "mkdir_only" THEN [fs |-> f, ok |-> FALSE]
    ELSE [fs |-> [dir |-> TRUE, files |-> WriteFile(f.files, path, img)], ok |-> TRUE]

ScreenshotWriteKeepsBackup(f, path, img, p) ==
    IF p = "ro" THEN [fs |-> f, ok |-> FALSE]
    ELSE IF p = "mkdir_only" THEN [fs |-> [f EXCEPT !.dir = TRUE], ok |-> FALSE]
    ELSE [fs |-> [dir |-> TRUE,
                  files |-> WriteFile({f2 \in f.files : f2[1] # BackupPath}, path, img)
                            \cup {<<BackupPath, f2[2]>> : f2 \in {f3 \in f.files : f3[1] = path}}],
          ok |-> TRUE]

ScreenshotWrite(f, path, img, p) ==
    IF p = "ro" THEN [fs |-> f, ok |-> FALSE]
    ELSE IF p = "mkdir_only" THEN [fs |-> [f EXCEPT !.dir = TRUE], ok |-> FALSE]
    ELSE [fs |-> [dir |-> TRUE, files |-> WriteFile(f.files, path, img)], ok |-> TRUE]

\* The interpreter's exit status: 1 after an unhandled exception, else 0.
ExitCodeAlwaysZero(r) == 0

ExitCode(r) == IF r THEN 1 ELSE 0

\* ------------------------------------------------------------------- Init
Init ==
    /\ pc = "with_enter"
    /\ raised = FALSE
    /\ driver = "none"
    /\ browser = "none"
    /\ context = "none"
    /\ page = "none"
    /\ pageContent = "blank"
    /\ server \in Servers
    /\ target \in Targets
    /\ perms \in Perms
    /\ fs \in {NoDir, EmptyDir, OldFile}
    /\ fsAtStart = fs
    /\ clock = 0
    /\ navAt = -1
    /\ shotAt = -1
    /\ exitCode = -1
    /\ run = 1
    /\ log = <<>>
    /\ withExits = 0
    /\ prev = NoPrev

\* A step of run() ends: it is logged, and control moves on or unwinds.
Advance(step, ok) ==
    /\ log' = Append(log, [step |-> step, ok |-> ok])
    /\ raised' = ~ok
    /\ pc' = IF ok THEN NextPc(step) ELSE OnFault(step)

\* with sync_playwright() as playwright:  (entering)
WithEnter ==
    /\ pc = "with_enter"
    /\ \E ok \in BOOLEAN :
        IF ok
        THEN /\ driver' = "running"
             /\ pc' = "launch"
             /\ UNCHANGED <<raised, exitCode>>
        ELSE /\ raised' = TRUE
             /\ exitCode' = ExitCode(TRUE)
             /\ pc' = "exited"
             /\ UNCHANGED driver
    /\ UNCHANGED <<browser, context, page, pageContent, server, target, perms,
                   fs, fsAtStart, clock, navAt, shotAt, run, log, withExits, prev>>

\* browser = playwright.chromium.launch(headless=True)
Launch ==
    /\ pc = "launch"
    /\ \E ok \in BOOLEAN :
        /\ browser' = IF ok THEN "live" ELSE browser
        /\ Advance("launch", ok)
    /\ UNCHANGED <<driver, context, page, pageContent, server, target, perms,
                   fs, fsAtStart, clock, navAt, shotAt, exitCode, run, withExits, prev>>

\* context = browser.new_context()
NewContext ==
    /\ pc = "new_context"
    /\ \E f \in BOOLEAN :
        LET ok == f /\ browser = "live" IN
        /\ context' = IF ok THEN "live" ELSE context
        /\ Advance("new_context", ok)
    /\ UNCHANGED <<driver, browser, page, pageContent, server, target, perms,
                   fs, fsAtStart, clock, navAt, shotAt, exitCode, run, withExits, prev>>

\* page = context.new_page()
NewPage ==
    /\ pc = "new_page"
    /\ \E f \in BOOLEAN :
        LET ok == f /\ context = "live" IN
        /\ page' = IF ok THEN "live" ELSE page
        /\ Advance("new_page", ok)
    /\ UNCHANGED <<driver, browser, context, pageContent, server, target, perms,
                   fs, fsAtStart, clock, navAt, shotAt, exitCode, run, withExits, prev>>

\* page.goto("http://localhost:1420/")
Goto ==
    /\ pc = "goto"
    /\ navAt' = clock
    /\ \E d \in 0..MaxGotoTicks :
        clock' = clock + d
    /\ LET ok == page = "live" /\ ~GotoRaises(server) IN
        /\ pageContent' = IF ok THEN Render(server, target) ELSE pageContent
        /\ Advance("goto", ok)
    /\ UNCHANGED <<driver, browser, context, page, server, target, perms,
                   fs, fsAtStart, shotAt, exitCode, run, withExits, prev>>

\* page.wait_for_timeout(5000)
Wait ==
    /\ pc = "wait"
    /\ \E f \in BOOLEAN, j \in 0..MaxJitter :
        LET ok == f /\ page = "live" IN
        /\ clock' = IF ok THEN clock + WaitElapsed(j) ELSE clock + j
        /\ Advance("wait", ok)
    /\ UNCHANGED <<driver, browser, context, page, pageContent, server, target,
                   perms, fs, fsAtStart, navAt, shotAt, exitCode, run, withExits, prev>>

\* page.screenshot(path="verification/verification.png")
Screenshot ==
    /\ pc = "screenshot"
    /\ shotAt' = clock
    /\ \E cap \in BOOLEAN :
        LET captured == cap /\ page = "live"
            res == IF captured
                   THEN ScreenshotWrite(fs, OutputPath, pageContent, perms)
                   ELSE [fs |-> fs, ok |-> FALSE]
        IN /\ fs' = res.fs
           /\ Advance("screenshot", res.ok)
    /\ UNCHANGED <<driver, browser, context, page, pageContent, server, target,
                   perms, fsAtStart, clock, navAt, exitCode, run, withExits, prev>>

\* browser.close()
Close ==
    /\ pc = "close"
    /\ \E f \in BOOLEAN :
        LET ok == f /\ browser = "live" IN
        /\ browser' = IF ok THEN "closed" ELSE browser
        /\ context' = IF ok /\ context = "live" THEN "closed" ELSE context
        /\ page' = IF ok /\ page = "live" THEN "closed" ELSE page
        /\ Advance("close", ok)
    /\ UNCHANGED <<driver, pageContent, server, target, perms, fs, fsAtStart,
                   clock, navAt, shotAt, exitCode, run, withExits, prev>>

\* leaving the with block, normally or with the exception of run(): the
\* driver is stopped, which ends a browser still running; the process ends.
WithExit ==
    /\ pc = "with_exit"
    /\ driver' = "stopped"
    /\ browser' = IF browser = "live" THEN "closed" ELSE browser
    /\ context' = IF context = "live" THEN "closed" ELSE context
    /\ page' = IF page = "live" THEN "closed" ELSE page
    /\ withExits' = withExits + 1
    /\ exitCode' = ExitCode(raised)
    /\ pc' = "exited"
    /\ UNCHANGED <<raised, pageContent, server, target, perms, fs, fsAtStart,
                   clock, navAt, shotAt, run, log, prev>>

\* The script is run again: a new process against the filesystem left behind.
Invoke ==
    /\ pc = "exited"
    /\ run < MaxRuns
    /\ run' = run + 1
    /\ prev' = [code |-> exitCode, fs |-> fs, server |-> server, target |-> target]
    /\ server' \in Servers
    /\ target' \in Targets
    /\ perms' \in Perms
    /\ fsAtStart' = fs
    /\ pc' = "with_enter"
    /\ raised' = FALSE
    /\ driver' = "none"
    /\ browser' = "none"
    /\ context' = "none"
    /\ page' = "none"
    /\ pageContent' = "blank"
    /\ clock' = 0
    /\ navAt' = -1
    /\ shotAt' = -1
    /\ exitCode' = -1
    /\ log' = <<>>
    /\ withExits' = 0
    /\ UNCHANGED fs

Next ==
    \/ WithEnter
    \/ Launch
    \/ NewContext
    \/ NewPage
    \/ Goto
    \/ Wait
    \/ Screenshot
    \/ Close
    \/ WithExit
    \/ Invoke

Spec == Init /\ [][Next]_vars

\* ------------------------------------------------------- reading the log
Issued(s) == \E i \in DOMAIN log : log[i].step = s
Completed(s) == \E i \in DOMAIN log : log[i].step = s /\ log[i].ok
AllCompleted == Len(log) = Len(Steps) /\ \A i \in DOMAIN log : log[i].ok
InRun == pc \in {Steps[i] : i \in DOMAIN Steps}
Exited == pc = "exited"
Written == <<OutputPath, pageContent>> \in fs.files
OtherFiles(f) == {x \in f.files : x[1] # OutputPath}

\* C1: the steps of run() are issued only in the order launch, new_context,
\* new_page, goto, wait, screenshot, close; a step is issued only when its
\* immediate predecessor completed, none is skipped or reordered, and each
\* is executed at most once per run.
C1_StepOrder ==
    /\ Len(log) <= Len(Steps)
    /\ \A i \in DOMAIN log : log[i].step = Steps[i]
    /\ \A i \in DOMAIN log : i > 1 => log[i - 1].ok
    /\ InRun => pc = Steps[Len(log) + 1]

C1_Witness == Exited /\ AllCompleted /\ exitCode = 0

\* C2: the page and its context are live only while the browser is live,
\* the screenshot is written before browser.close(), and no page operation
\* (goto, wait_for_timeout, screenshot) is issued once the browser is closed.
C2_ResourceLifetime ==
    /\ page = "live" => context = "live"
    /\ context = "live" => browser = "live"
    /\ pc \in PageOps => browser = "live" /\ page = "live"
    /\ \A i, j \in DOMAIN log :
         log[i].step = "close" /\ log[j].step \in PageOps => j < i
    /\ Issued("close") => Completed("screenshot") /\ Written

C2_Witness == Exited /\ Completed("close") /\ page = "closed" /\ Written

\* C3: a fault raised by launch, new_context, new_page, goto,
\* wait_for_timeout or screenshot aborts the run at that step: no later step
\* is executed, the step is not retried, and browser.close() is not reached.
C3_FaultAborts ==
    /\ raised => pc \in {"with_exit", "exited"}
    /\ \A i \in DOMAIN log : ~log[i].ok =>
         /\ i = Len(log)
         /\ raised
         /\ log[i].step # "close" => ~Issued("close")
    /\ raised => ~Completed("close")

C3_Witness ==
    /\ Exited /\ raised
    /\ Len(log) = 5 /\ log[5].step = "wait" /\ ~log[5].ok
    /\ browser = "closed"

\* C4: when no server listens on http://localhost:1420/, the run ends with a
\* non-zero exit status, the screenshot step is never executed, and the
\* filesystem (verification/verification.png included) is left as it was.
C4_NoServer ==
    server = "down" =>
        /\ ~Issued("wait")
        /\ ~Issued("screenshot")
        /\ shotAt = -1
        /\ fs = fsAtStart
        /\ Exited => exitCode = 1

C4_Witness ==
    /\ server = "down" /\ Exited /\ Issued("goto")
    /\ fsAtStart = OldFile /\ fs = OldFile

C6_ExitCode ==
    /\ Exited => exitCode \in {0, 1}
    /\ Exited => (exitCode = 0 <=> AllCompleted /\ Written)
    /\ Exited /\ (\E i \in DOMAIN log : ~log[i].ok) => exitCode # 0
    /\ ~Exited => exitCode = -1

C6_Witness ==
    /\ Exited /\ exitCode = 1
    /\ Len(log) = 6 /\ log[6].step = "screenshot" /\ ~log[6].ok

C8_Idempotent ==
    Exited /\ exitCode = 0 =>
        /\ fs.dir
        /\ {x \in fs.files : x[1] = OutputPath} = {<<OutputPath, pageContent>>}
        /\ OtherFiles(fs) = OtherFiles(fsAtStart)
        /\ pageContent = Render(server, target)
        /\ prev.code = 0 /\ prev.server = server /\ prev.target = target
             => fs = prev.fs

C8_Witness ==
    /\ Exited /\ exitCode = 0 /\ run = 2
    /\ prev.code = 0 /\ prev.server = server /\ prev.target = target
    /\ fs = prev.fs /\ Written

\* C9: whenever the screenshot step is issued, at least 5000 ms have elapsed
\* since page.goto was issued, however fast the page loaded.
C9_FixedWait ==
    shotAt # -1 => navAt # -1 /\ shotAt - navAt >= 5000

C9_Witness ==
    Completed("screenshot") /\ shotAt - navAt = 5000 /\ clock = shotAt

\* C10: on every exit path of the script, normal or by a fault raised inside
\* run(), the with block is exited exactly once, which stops the Playwright
\* driver even when browser.close() was skipped; no step of run() executes
\* after that exit.
C10_WithExitOnce ==
    /\ [](/\ withExits <= 1
          /\ Exited /\ driver # "none" => withExits = 1 /\ driver = "stopped"
          /\ Exited /\ log # <<>> => withExits = 1 /\ browser # "live"
          /\ withExits = 1 => Exited)
    /\ [][withExits = 1 /\ run' = run => log' = log /\ withExits' = 1]_vars

C10_Witness ==
    /\ Exited /\ raised /\ withExits = 1 /\ driver = "stopped"
    /\ Issued("goto") /\ ~Issued("close") /\ browser = "closed"

====
